---- MODULE Spec2Model ----
(***************************************************************************)
(* Model of app.py of real-estate-alerter: the feedback update issued to   *)
(* the warehouse, the cached table loader, the session state of the        *)
(* Streamlit script, the overview filter and the flat-file normalizer.     *)
(*                                                                         *)
(* Text is modelled as a sequence of symbols.  A symbol is either one      *)
(* character typed by a user or stored in a record ("a", "'", "\\", ...)   *)
(* or one piece of the fixed text of the f-string of lines 52-58.          *)
(***************************************************************************)
EXTENDS Integers, Sequences, FiniteSets, TLC

VARIABLES
    store,        \* the warehouse: table name -> sequence of rows
    cache,        \* st.cache_data of load_and_process_bigquery_data
    sess,         \* st.session_state and widget state of every session
    inflight,     \* the UPDATE statement each session has sent, if any
    lastAct,      \* history: the step that was taken last
    lastLanded,   \* history: per row of the updated table, the last call that hit it
    nWrites,      \* history: number of feedback submissions so far
    sqlCall,      \* arguments of one call of update_feedback_in_bigquery
    sqlStmt,      \* the statement the warehouse reads from that call
    fdf,          \* overview filter: the collection
    fcrit,        \* overview filter: the widget values
    fout,         \* overview filter: filtered_df
    rawRows,      \* uploaded flat file: the raw rows
    normDf        \* uploaded flat file: the frame after processing

vars == <<store, cache, sess, inflight, lastAct, lastLanded, nWrites,
          sqlCall, sqlStmt, fdf, fcrit, fout, rawRows, normDf>>

None == "None"

----------------------------------------------------------------------------
(* Text                                                                    *)

QUOTE == "'"
BSLASH == "\\"
BEL == "BEL"

\* the characters a user can type into an explanation or that an id can hold
Chars == {"a", QUOTE, BSLASH}

MaxLen == 2

Strings == UNION {[1..n -> Chars] : n \in 0..MaxLen}

\* pieces of the fixed text of the f-string (each holds a line break)
KW_UPDATE == "UPDATE newsworthy SET is_newsworthy ="
KW_FEEDBACK == ", feedback ="
KW_WHERE == "WHERE transaction_id ="
Keywords == {KW_UPDATE, KW_FEEDBACK, KW_WHERE}

\* str.replace("'", "''")
RECURSIVE ReplaceQuote(_)
ReplaceQuote(s) ==
    IF s = <<>> THEN <<>>
    ELSE (IF Head(s) = QUOTE THEN <<QUOTE, QUOTE>> ELSE <<Head(s)>>)
         \o ReplaceQuote(Tail(s))

\* line 50: explanation.replace("'", "''") if explanation else ""
EscapeExplanation(explanation) ==
    IF explanation = <<>> THEN <<>> ELSE ReplaceQuote(explanation)

\* line 55: {feedback_label == "Newsworthy"} prints True or False
BoolText(feedback_label) == IF feedback_label = "Newsworthy" THEN "True" ELSE "False"

\* lines 52-58: the f-string
BuildUpdateQuery(transaction_id, feedback_label, explanation) ==
    <<KW_UPDATE, BoolText(feedback_label), KW_FEEDBACK, QUOTE>>
    \o EscapeExplanation(explanation)
    \o <<QUOTE, KW_WHERE, QUOTE>>
    \o transaction_id
    \o <<QUOTE>>

\* The warehouse reading the statement that line 61 sends.  In a single-quoted
\* string literal a backslash starts an escape sequence, an unescaped quote
\* ends the literal and a line break is an error; two literals that touch are
\* an error; so is a character outside a literal.
FixedText == Keywords \cup {"True", "False"}

UnescapeChar(c) == IF c = "a" THEN BEL ELSE c

LexError == <<[k |-> "error", v |-> <<>>]>>

RECURSIVE LexFrom(_, _, _, _)
LexFrom(q, inStr, cur, toks) ==
    IF q = <<>> THEN (IF inStr THEN LexError ELSE toks)
    ELSE LET c == Head(q)
             r == Tail(q)
         IN IF inStr
            THEN IF c = QUOTE
                 THEN LexFrom(r, FALSE, <<>>, Append(toks, [k |-> "str", v |-> cur]))
                 ELSE IF c = BSLASH
                 THEN IF r = <<>> \/ Head(r) \in FixedText
                      THEN LexError
                      ELSE LexFrom(Tail(r), TRUE, Append(cur, UnescapeChar(Head(r))), toks)
                 ELSE IF c \in FixedText
                 THEN LexError
                 ELSE LexFrom(r, TRUE, Append(cur, c), toks)
            ELSE IF c = QUOTE
                 THEN IF toks # <<>> /\ toks[Len(toks)].k = "str"
                      THEN LexError
                      ELSE LexFrom(r, TRUE, <<>>, toks)
                 ELSE IF c \in FixedText
                 THEN LexFrom(r, FALSE, <<>>, Append(toks, [k |-> "kw", v |-> <<c>>]))
                 ELSE LexError

Lex(q) == LexFrom(q, FALSE, <<>>, <<>>)

IsKw(t, w) == t.k = "kw" /\ t.v = <<w>>

BadStatement ==
    [ok |-> FALSE, is_newsworthy |-> FALSE, feedback |-> <<>>, target |-> <<>>]

\* the statement as the warehouse understands it
ParseUpdate(q) ==
    LET toks == Lex(q)
    IN IF /\ Len(toks) = 6
          /\ IsKw(toks[1], KW_UPDATE)
          /\ (IsKw(toks[2], "True") \/ IsKw(toks[2], "False"))
          /\ IsKw(toks[3], KW_FEEDBACK)
          /\ toks[4].k = "str"
          /\ IsKw(toks[5], KW_WHERE)
          /\ toks[6].k = "str"
       THEN [ok |-> TRUE, is_newsworthy |-> IsKw(toks[2], "True"),
             feedback |-> toks[4].v, target |-> toks[6].v]
       ELSE BadStatement

----------------------------------------------------------------------------
(* Records of the warehouse tables, as the query of lines 19-40 returns them *)

\* a null FLOAT64 (NaN in the frame); transaction sums are never negative
NaN == -1

\* transaction_sum is FLOAT64: a sum is counted in units of 1/Scale NOK
Scale == 2

\* a null created_date
NaT == <<0, 0, 0>>

DigitChars == <<"0", "1", "2", "3", "4", "5", "6", "7", "8", "9">>

Pad2(n) == <<DigitChars[(n \div 10) + 1], DigitChars[(n % 10) + 1]>>

Pad4(n) == Pad2(n \div 100) \o Pad2(n % 100)

\* line 204, 221: created_date.astype(str) of a datetime.date (isoformat)
DateStr(d) ==
    IF d = NaT THEN <<"N", "a", "T">>
    ELSE Pad4(d[1]) \o <<"-">> \o Pad2(d[2]) \o <<"-">> \o Pad2(d[3])

\* a Python value read from a cell: its type and its text
PyStr(s) == [t |-> "str", v |-> s]
PyInt(s) == [t |-> "int", v |-> s]
PyNone == [t |-> "none", v |-> <<>>]

\* Python's ==: a str never equals a number
PyEq(x, y) == x.t = y.t /\ x.v = y.v

Row(tid, district, type, date, sum, celeb, isnw) ==
    [transaction_id |-> tid, property_district |-> district,
     property_building_type_category |-> type, created_date |-> date,
     transaction_sum |-> sum, has_celebrity |-> celeb,
     is_newsworthy |-> isnw, feedback |-> <<>>]

D1 == <<2024, 1, 15>>
D2 == <<2024, 11, 5>>

----------------------------------------------------------------------------
(* Overview tab: filter widgets and filter, lines 189-225                  *)

Unique(df, c) == {df[i][c] : i \in 1..Len(df)}

\* sorted() of lines 194 and 199 raises TypeError on None among strings
Sortable(values) == ~(None \in values /\ values # {None})

Sums(df) == {df[i].transaction_sum : i \in 1..Len(df)} \ {NaN}

SetMin(S) == CHOOSE x \in S : \A y \in S : x <= y
SetMax(S) == CHOOSE x \in S : \A y \in S : x >= y

\* int() of a non-negative float
IntOf(x) == x \div Scale

\* lines 207-212: int(min()) and int(max()) raise ValueError on NaN
SliderMin(df) == IntOf(SetMin(Sums(df)))
SliderMax(df) == IntOf(SetMax(Sums(df)))

\* lines 190-212 run without raising
OverviewRenders(df) ==
    /\ Sortable(Unique(df, "property_district"))
    /\ Sortable(Unique(df, "property_building_type_category"))
    /\ Sums(df) # {}

\* the values the four widgets of lines 192-212 can return
WidgetValues(df) ==
    [district_filter : SUBSET Unique(df, "property_district"),
     type_filter : SUBSET Unique(df, "property_building_type_category"),
     date_filter : SUBSET {DateStr(d) : d \in Unique(df, "created_date")},
     price_range : {r \in (SliderMin(df)..SliderMax(df)) \X (SliderMin(df)..SliderMax(df)) :
                        r[1] <= r[2]}]

\* line 211: the slider as it is first shown
DefaultRange(df) == <<SliderMin(df), SliderMax(df)>>

\* the index labels of the frame: read_gbq gives a RangeIndex
IndexOf(df) == [i \in 1..Len(df) |-> i - 1]

\* lines 223-224: comparisons with NaN are False
InPriceRangeOpen(sum, price_range) ==
    sum # NaN /\ sum > price_range[1] * Scale /\ sum < price_range[2] * Scale

InPriceRange(sum, price_range) ==
    sum # NaN /\ sum >= price_range[1] * Scale /\ sum <= price_range[2] * Scale

\* lines 214-225: filtered_df, as the index labels it keeps
FilterOverview(df, w) ==
    LET f0 == IndexOf(df)
        f1 == IF w.district_filter # {}
              THEN SelectSeq(f0, LAMBDA idx : df[idx + 1].property_district \in w.district_filter)
              ELSE f0
        f2 == IF w.type_filter # {}
              THEN SelectSeq(f1, LAMBDA idx :
                       df[idx + 1].property_building_type_category \in w.type_filter)
              ELSE f1
        f3 == IF w.date_filter # {}
              THEN SelectSeq(f2, LAMBDA idx : DateStr(df[idx + 1].created_date) \in w.date_filter)
              ELSE f2
    IN SelectSeq(f3, LAMBDA idx : InPriceRange(df[idx + 1].transaction_sum, w.price_range))

\* the rows a table can hold in the filter model
RowPool ==
    {Row(<<"T", "1">>, "Frogner", "Apartment", D1, 2, PyStr(<<"0">>), TRUE),
     Row(<<"T", "2">>, "Sentrum", "House", D2, 5, PyStr(<<"1">>), TRUE),
     Row(<<"T", "3">>, "Frogner", "House", D2, NaN, PyNone, TRUE),
     Row(<<"T", "4">>, "Sentrum", "Apartment", D1, 8, PyStr(<<"0">>), TRUE),
     Row(<<"T", "5">>, None, "House", NaT, 5, PyStr(<<"Ola">>), TRUE)}

MaxRows == 3

NoWidgets ==
    [district_filter |-> {}, type_filter |-> {}, date_filter |-> {}, price_range |-> <<0, 0>>]

\* the query result arrives row by row
FilterLoadRow(r) ==
    /\ ~fout.done
    /\ Len(fdf) < MaxRows
    /\ \A i \in 1..Len(fdf) : fdf[i].transaction_id # r.transaction_id
    /\ fdf' = Append(fdf, r)
    /\ UNCHANGED <<fcrit, fout>>

\* one run of the script with the widgets at w
FilterRun ==
    /\ ~fout.done
    /\ OverviewRenders(fdf)
    /\ \E w \in WidgetValues(fdf) :
          /\ fcrit' = w
          /\ fout' = [done |-> TRUE, idx |-> FilterOverview(fdf, w)]
    /\ UNCHANGED fdf

FilterIdle == fdf = <<>> /\ fcrit = NoWidgets /\ fout = [done |-> FALSE, idx |-> <<>>]

----------------------------------------------------------------------------
(* Uploaded flat file: DataProcessor, lines 66-120, and the upload handler  *)

\* the keys of extracted_fields, lines 77-92
ExtractedFields ==
    {"transaction_id", "transaction_sum", "property_district", "transaction_date",
     "property_number_of_rooms", "property_number_of_bathrooms", "property_area",
     "building_footprint", "price_per_sqm", "has_celebrity", "transaction_type",
     "property_building_type_category", "built_year", "document_number"}

\* The text of column '0'.  kind "dict": a dictionary display of literal
\* key/value items; "list": another literal; "call": text that holds a call
\* or a name, which ast.literal_eval refuses.
DictText(items) == [kind |-> "dict", items |-> items]
ListText == [kind |-> "list", items |-> <<>>]
CallText == [kind |-> "call", items |-> <<>>]

\* ast.literal_eval raises ValueError
LiteralEvalRaises(text) == text.kind = "call"

Keys(items) == {items[i][1] : i \in 1..Len(items)}

LastAt(items, key) ==
    CHOOSE i \in 1..Len(items) :
        /\ items[i][1] = key
        /\ \A j \in (i + 1)..Len(items) : items[j][1] # key

\* ast.literal_eval of a dictionary display: the last item of a key wins
LiteralEval(text) ==
    [isDict |-> text.kind = "dict",
     map |-> [key \in Keys(text.items) |-> text.items[LastAt(text.items, key)][2]]]

\* data.get(field, None), line 97
DictGet(data, field) == IF field \in DOMAIN data.map THEN data.map[field] ELSE PyNone

RECURSIVE LStrip(_)
LStrip(s) == IF s # <<>> /\ Head(s) = " " THEN LStrip(Tail(s)) ELSE s

RECURSIVE RStrip(_)
RStrip(s) ==
    IF s # <<>> /\ s[Len(s)] = " " THEN RStrip(SubSeq(s, 1, Len(s) - 1)) ELSE s

\* lines 112 and 119: x.strip() if isinstance(x, str) else ''
StripCell(x) == IF x.t = "str" THEN PyStr(RStrip(LStrip(x.v))) ELSE PyStr(<<>>)

\* df[name] = values: a new column, values[i] on row i
WithColumn(df, name, values) ==
    [cols |-> df.cols \cup {name},
     rows |-> [i \in 1..Len(df.rows) |->
                  [c \in df.cols \cup {name} |->
                      IF c = name THEN values[i] ELSE df.rows[i][c]]]]

\* lines 100-101: a new column for every name, values[i][name] on row i
WithColumns(df, names, values) ==
    [cols |-> df.cols \cup names,
     rows |-> [i \in 1..Len(df.rows) |->
                  [c \in df.cols \cup names |->
                      IF c \in names THEN values[i][c] ELSE df.rows[i][c]]]]

\* Series.apply: the function on every cell of a column
Column(df, name) == [i \in 1..Len(df.rows) |-> df.rows[i][name]]

\* lines 70-106
ProcessJsonColumn(df) ==
    IF \E i \in 1..Len(df.rows) : LiteralEvalRaises(df.rows[i]["0"])
    THEN df                                      \* line 74 raised: lines 104-106
    ELSE LET df1 == WithColumn(df, "property_data",
                        [i \in 1..Len(df.rows) |-> LiteralEval(Column(df, "0")[i])])
         IN IF \E i \in 1..Len(df1.rows) : ~df1.rows[i].property_data.isDict
            THEN df1                             \* line 97 raised: lines 104-106
            ELSE WithColumns(df1, ExtractedFields,
                     [i \in 1..Len(df1.rows) |->
                         [f \in ExtractedFields |-> DictGet(df1.rows[i].property_data, f)]])

\* lines 109-113
CleanDescription(df) ==
    IF "1" \in df.cols
    THEN WithColumn(df, "description",
             [i \in 1..Len(df.rows) |-> StripCell(Column(df, "1")[i])])
    ELSE df

\* lines 116-120
ProcessAlert(df) ==
    IF "2" \in df.cols
    THEN WithColumn(df, "newsworthy_alert",
             [i \in 1..Len(df.rows) |-> StripCell(Column(df, "2")[i])])
    ELSE df

\* line 184: lambda x: "No" if x == '0' else x
CelebrityLambda(x) == IF PyEq(x, PyStr(<<"0">>)) THEN PyStr(<<"N", "o">>) ELSE x

\* lines 183-184
NormalizeCelebrity(df) ==
    IF "has_celebrity" \in df.cols
    THEN WithColumn(df, "has_celebrity",
             [i \in 1..Len(df.rows) |-> CelebrityLambda(Column(df, "has_celebrity")[i])])
    ELSE df

\* pd.read_csv, line 150: the first three columns are named '0', '1', '2'
ReadCsv(raw) ==
    [cols |-> {"0", "1", "2"},
     rows |-> [i \in 1..Len(raw) |->
                  [c \in {"0", "1", "2"} |->
                      IF c = "0" THEN raw[i].c0 ELSE IF c = "1" THEN raw[i].c1 ELSE raw[i].c2]]]

\* lines 150-154
ProcessUpload(raw) == ProcessAlert(CleanDescription(ProcessJsonColumn(ReadCsv(raw))))

Txt(s) == PyStr(s)

\* an empty cell of the file is read as a float NaN
EmptyCell == [t |-> "float", v |-> <<"n", "a", "n">>]

RawPool ==
    {[c0 |-> DictText(<<<<"transaction_id", PyStr(<<"T", "1">>)>>,
                        <<"transaction_sum", PyInt(<<"5", "0", "0", "0", "0", "0", "0">>)>>,
                        <<"property_district", PyStr(<<"F", "r", "o", "g", "n", "e", "r">>)>>,
                        <<"has_celebrity", PyStr(<<"0">>)>>>>),
      c1 |-> Txt(<<" ", "A", " ", "n", "i", "c", "e", " ", "f", "l", "a", "t", " ">>),
      c2 |-> Txt(<<" ", "C", "e", "l", "e", "b", "r", "i", "t", "y", " ">>)],
     [c0 |-> DictText(<<<<"transaction_id", PyStr(<<"T", "2">>)>>,
                        <<"has_celebrity", PyInt(<<"0">>)>>>>),
      c1 |-> Txt(<<"f", "l", "a", "t">>),
      c2 |-> EmptyCell],
     [c0 |-> DictText(<<<<"transaction_id", PyStr(<<"T", "3">>)>>,
                        <<"has_celebrity", PyStr(<<"O", "l", "a">>)>>,
                        <<"transaction_id", PyStr(<<"T", "9">>)>>>>),
      c1 |-> EmptyCell,
      c2 |-> Txt(<<"s", "a", "l", "e", " ">>)],
     [c0 |-> CallText,
      c1 |-> Txt(<<" ", "h", "u", "t">>),
      c2 |-> Txt(<<"a", "l", "e", "r", "t">>)],
     [c0 |-> ListText,
      c1 |-> Txt(<<"b", "a", "r", "n">>),
      c2 |-> Txt(<<>>)]}

NoFrame == [cols |-> {}, rows |-> <<>>]

\* the rows of the file that is uploaded
NormAddRow(r) ==
    /\ ~normDf.done
    /\ Len(rawRows) < MaxRows
    /\ \A i \in 1..Len(rawRows) : rawRows[i] # r
    /\ rawRows' = Append(rawRows, r)
    /\ UNCHANGED normDf

\* lines 147-157 and 180-184: the run of the script that receives the file
NormUpload ==
    /\ ~normDf.done
    /\ rawRows # <<>>
    /\ normDf' = [done |-> TRUE, runs |-> 1, df |-> NormalizeCelebrity(ProcessUpload(rawRows))]
    /\ UNCHANGED rawRows

MaxRuns == 2

\* lines 180-184 in a later run of the script, on the frame of the session
NormRerun ==
    /\ normDf.done
    /\ normDf.runs < MaxRuns
    /\ normDf' = [normDf EXCEPT !.runs = @ + 1, !.df = NormalizeCelebrity(@)]
    /\ UNCHANGED rawRows

NormIdle == rawRows = <<>> /\ normDf = [done |-> FALSE, runs |-> 0, df |-> NoFrame]

----------------------------------------------------------------------------
(* The warehouse, the loader and its cache, lines 11-64                    *)

Tables == {"newsworthy", "non_newsworthy"}

\* a stored row: Row with a timestamp <<year, month, day, hour>> as created_date
StoredRow(tid, district, type, ts, sum, celeb, isnw) ==
    Row(tid, district, type, ts, sum, celeb, isnw)

InitStore ==
    [newsworthy |->
        <<StoredRow(<<"T", "1">>, "Frogner", "Apartment", <<2024, 1, 15, 9>>, 2, PyStr(<<"0">>), TRUE),
          StoredRow(<<"T", "2">>, "Sentrum", "House", <<2024, 11, 5, 17>>, NaN, PyStr(<<"1">>), TRUE),
          StoredRow(<<"T", "3">>, "Frogner", "House", <<2024, 11, 5, 8>>, 8, PyNone, TRUE)>>,
     non_newsworthy |->
        <<StoredRow(<<"N", "1">>, "Sentrum", "Apartment", <<2024, 1, 15, 12>>, 9, PyStr(<<"0">>), FALSE),
          StoredRow(<<"N", "2">>, "Frogner", "House", <<2024, 11, 5, 7>>, 5, PyNone, FALSE)>>]

\* line 42: pd.to_datetime(...).dt.date drops the time of day
ToDate(ts) == <<ts[1], ts[2], ts[3]>>

\* lines 19-42: the query against the table, then the date conversion
QueryTable(st, table_name) ==
    [i \in 1..Len(st[table_name]) |->
        [st[table_name][i] EXCEPT !.created_date = ToDate(@)]]

NoEntry == [hit |-> FALSE, rows |-> <<>>]

\* lines 14-43: @st.cache_data returns the stored result of an earlier call
\* with the same arguments; clear_cache (lines 11-12) is never called
LoadAndProcessBigqueryData(ch, st, table_name) ==
    IF ch[table_name].hit
    THEN [rows |-> ch[table_name].rows, cache |-> ch]
    ELSE [rows |-> QueryTable(st, table_name),
          cache |-> [ch EXCEPT ![table_name] =
                        [hit |-> TRUE, rows |-> QueryTable(st, table_name)]]]

\* a statement that appends to the stored feedback
ApplyUpdateAppend(st, stmt) ==
    IF stmt.ok
    THEN [st EXCEPT !.newsworthy =
            [i \in 1..Len(@) |->
                IF @[i].transaction_id = stmt.target
                THEN [@[i] EXCEPT !.is_newsworthy = stmt.is_newsworthy,
                                  !.feedback = @ \o stmt.feedback]
                ELSE @[i]]]
    ELSE st

\* a statement whose two assignments are not applied together
ApplyUpdateTorn(st, stmt) ==
    IF stmt.ok
    THEN [st EXCEPT !.newsworthy =
            [i \in 1..Len(@) |->
                IF @[i].transaction_id = stmt.target
                THEN [@[i] EXCEPT !.is_newsworthy = stmt.is_newsworthy,
                                  !.feedback = IF @ = <<>> THEN stmt.feedback ELSE @]
                ELSE @[i]]]
    ELSE st

\* lines 52-61: the warehouse runs the UPDATE on table newsworthy (line 53);
\* a statement it cannot read changes nothing and raises
ApplyUpdate(st, stmt) ==
    IF stmt.ok
    THEN [st EXCEPT !.newsworthy =
            [i \in 1..Len(@) |->
                IF @[i].transaction_id = stmt.target
                THEN [@[i] EXCEPT !.is_newsworthy = stmt.is_newsworthy,
                                  !.feedback = stmt.feedback]
                ELSE @[i]]]
    ELSE st

----------------------------------------------------------------------------
(* One session of the script, lines 122-403                                *)

Sessions == {1, 2}

TableOptions == {"Newsworthy", "Non-Newsworthy"}

\* line 160
TableName(table_option) ==
    IF table_option = "Newsworthy" THEN "newsworthy" ELSE "non_newsworthy"

NoDf == [source |-> None, rows |-> <<>>]

NoRecord == [source |-> None, tid |-> <<>>]

\* lines 126-133, before the first run
NewSession ==
    [started |-> FALSE, table_option |-> "Newsworthy", uploaded |-> FALSE,
     df |-> NoDf, current_table |-> None, selected_property |-> <<>>,
     current_tab |-> "Overview", clicked |-> NoRecord]

\* the file a user uploads
CsvFile ==
    <<CHOOSE r \in RawPool : r.c1 = Txt(<<"f", "l", "a", "t">>),
      CHOOSE r \in RawPool : r.c2 = Txt(<<"s", "a", "l", "e", " ">>)>>

\* line 184 on the frame of a table
NormalizeRows(rows) ==
    [i \in 1..Len(rows) |-> [rows[i] EXCEPT !.has_celebrity = CelebrityLambda(@)]]

\* lines 147-184 of one run: the frame, the table and the cache after them
Prologue(s, ch, st) ==
    LET table_name == TableName(s.table_option)
        df0 == IF s.uploaded
               THEN [source |-> "upload", rows |-> ProcessUpload(CsvFile).rows]
               ELSE s.df
        reload == df0.source = None \/ s.current_table # table_name
        got == LoadAndProcessBigqueryData(ch, st, table_name)
        df1 == IF reload THEN [source |-> table_name, rows |-> got.rows] ELSE df0
    IN [reload |-> reload,
        cache |-> IF reload THEN got.cache ELSE ch,
        df |-> IF df1.source = "upload"
               THEN [df1 EXCEPT !.rows =
                        NormalizeCelebrity([cols |-> ProcessUpload(CsvFile).cols, rows |-> @]).rows]
               ELSE [df1 EXCEPT !.rows = NormalizeRows(@)],
        current_table |-> IF reload THEN table_name ELSE s.current_table]

\* the script reaches the tabs without raising: an uploaded frame has no
\* created_date column (KeyError at line 204)
PageRenders(df) == df.source \in Tables /\ OverviewRenders(df.rows)

NoRequest == [sent |-> FALSE, call |-> [transaction_id |-> <<>>, feedback_label |-> "", explanation |-> <<>>],
              dataset |-> None, query |-> <<>>]

NoCall == [transaction_id |-> <<>>, feedback_label |-> "", explanation |-> <<>>]

NoAct == [kind |-> "none", sid |-> 0]

Act(kind, sid) == [kind |-> kind, sid |-> sid]

Idle(sid) == ~inflight[sid].sent

\* a run of the script that ends after line 184 with these widget values
Rerun(sid, s) ==
    LET p == Prologue(s, cache, store)
    IN /\ sess' = [sess EXCEPT ![sid] = [s EXCEPT !.started = TRUE, !.df = p.df,
                                               !.current_table = p.current_table]]
       /\ cache' = p.cache
       /\ lastAct' = Act(IF p.reload THEN "reload" ELSE "rerun", sid)
       /\ UNCHANGED <<store, inflight, lastLanded, nWrites>>

\* a browser opens the page: the first run
Open(sid) ==
    /\ ~sess[sid].started
    /\ Rerun(sid, sess[sid])

\* the radio of lines 139-142 is set to another table
SwitchTable(sid) ==
    /\ sess[sid].started /\ Idle(sid)
    /\ \E o \in TableOptions \ {sess[sid].table_option} :
          Rerun(sid, [sess[sid] EXCEPT !.table_option = o])

\* a file is put into the uploader of line 146
Upload(sid) ==
    /\ sess[sid].started /\ Idle(sid)
    /\ ~sess[sid].uploaded
    /\ Rerun(sid, [sess[sid] EXCEPT !.uploaded = TRUE])

\* the file is taken out of the uploader
RemoveUpload(sid) ==
    /\ sess[sid].started /\ Idle(sid)
    /\ sess[sid].uploaded
    /\ Rerun(sid, [sess[sid] EXCEPT !.uploaded = FALSE])

\* lines 214-225 and 286-289: the rows that some widget values leave a button for
Clickable(df) ==
    IF PageRenders(df)
    THEN {idx \in 0..(Len(df.rows) - 1) :
            \E w \in WidgetValues(df.rows) :
               \E j \in 1..Len(FilterOverview(df.rows, w)) : FilterOverview(df.rows, w)[j] = idx}
    ELSE {}

\* lines 286-292: a button below the filtered table is clicked
Click(sid) ==
    /\ sess[sid].started /\ Idle(sid)
    /\ LET p == Prologue(sess[sid], cache, store)
       IN /\ PageRenders(p.df)
          /\ \E idx \in Clickable(p.df) :
                sess' = [sess EXCEPT ![sid] =
                           [@ EXCEPT !.df = p.df,
                                     !.current_table = p.current_table,
                                     !.selected_property = <<idx>>,
                                     !.current_tab = "Detailed View",
                                     !.clicked = [source |-> p.df.source,
                                                  tid |-> p.df.rows[idx + 1].transaction_id]]]
          /\ cache' = p.cache
          /\ lastAct' = Act("click", sid)
    /\ UNCHANGED <<store, inflight, lastLanded, nWrites>>

FeedbackLabels == {"Newsworthy", "Not newsworthy"}

\* what is typed into the text area of line 358
Explanations == {<<>>, <<"a">>, <<QUOTE>>}

MaxWrites == 2

\* lines 297-376: the thumbs widget returns a score in the detail view
SubmitFeedback(sid) ==
    /\ sess[sid].started /\ Idle(sid)
    /\ nWrites < MaxWrites
    /\ sess[sid].selected_property # <<>>
    /\ LET p == Prologue(sess[sid], cache, store)
           sel == sess[sid].selected_property[1]
       IN /\ PageRenders(p.df)
          /\ sess' = [sess EXCEPT ![sid] = [@ EXCEPT !.df = p.df,
                                                    !.current_table = p.current_table]]
          /\ cache' = p.cache
          /\ IF sel >= Len(p.df.rows)
             THEN \* df.iloc raises IndexError, line 298
                  /\ lastAct' = Act("indexerror", sid)
                  /\ UNCHANGED <<inflight, nWrites>>
             ELSE \E label \in FeedbackLabels, explanation \in Explanations :
                  LET transaction_id == p.df.rows[sel + 1].transaction_id
                      call == [transaction_id |-> transaction_id,
                               feedback_label |-> label, explanation |-> explanation]
                  IN IF transaction_id = <<>>
                     THEN \* line 376
                          /\ lastAct' = Act("noid", sid)
                          /\ UNCHANGED <<inflight, nWrites>>
                     ELSE /\ inflight' = [inflight EXCEPT ![sid] =
                                [sent |-> TRUE, call |-> call, dataset |-> p.df.source,
                                 query |-> BuildUpdateQuery(transaction_id, label, explanation)]]
                          /\ nWrites' = nWrites + 1
                          /\ lastAct' = Act("submit", sid)
    /\ UNCHANGED <<store, lastLanded>>

Hits(st, stmt) ==
    {st.newsworthy[i].transaction_id : i \in {j \in 1..Len(st.newsworthy) :
        stmt.ok /\ st.newsworthy[j].transaction_id = stmt.target}}

\* line 61: the warehouse runs the statement of one session; lines 62-64 and
\* 372-374 report the outcome
StoreApply(sid) ==
    /\ inflight[sid].sent
    /\ LET stmt == ParseUpdate(inflight[sid].query)
           call == inflight[sid].call
       IN /\ store' = ApplyUpdate(store, stmt)
          /\ lastLanded' = [call |-> call, dataset |-> inflight[sid].dataset, ok |-> stmt.ok,
                            repeat |-> stmt.ok /\ lastLanded.ok /\ lastLanded.call = call,
                            byRow |-> [t \in DOMAIN lastLanded.byRow |->
                                IF t \in Hits(store, stmt)
                                THEN [call |-> call, prev |-> lastLanded.byRow[t].call,
                                      sids |-> lastLanded.byRow[t].sids \cup {sid}]
                                ELSE lastLanded.byRow[t]]]
          /\ lastAct' = Act("landed", sid)
    /\ inflight' = [inflight EXCEPT ![sid] = NoRequest]
    /\ UNCHANGED <<cache, sess, nWrites>>

NoLanding ==
    [call |-> NoCall, dataset |-> None, ok |-> FALSE, repeat |-> FALSE,
     byRow |-> [t \in {InitStore.newsworthy[i].transaction_id :
                         i \in 1..Len(InitStore.newsworthy)} |->
                   [call |-> NoCall, prev |-> NoCall, sids |-> {}]]]

MainInit ==
    /\ store = InitStore
    /\ cache = [t \in Tables |-> NoEntry]
    /\ sess = [sid \in Sessions |-> NewSession]
    /\ inflight = [sid \in Sessions |-> NoRequest]
    /\ lastAct = NoAct
    /\ lastLanded = NoLanding
    /\ nWrites = 0

mainVars == <<store, cache, sess, inflight, lastAct, lastLanded, nWrites>>
sqlVars == <<sqlCall, sqlStmt>>
filterVars == <<fdf, fcrit, fout>>
normVars == <<rawRows, normDf>>

----------------------------------------------------------------------------
(* One call of update_feedback_in_bigquery with arbitrary arguments        *)

SqlIdle == sqlCall = NoCall /\ sqlStmt = [sent |-> FALSE, stmt |-> BadStatement]

SqlInit ==
    /\ sqlCall \in [transaction_id : Strings \ {<<>>}, feedback_label : FeedbackLabels,
                    explanation : Strings]
    /\ sqlStmt = [sent |-> FALSE, stmt |-> BadStatement]

\* lines 45-61
UpdateFeedbackInBigquery ==
    /\ ~sqlStmt.sent
    /\ sqlStmt' = [sent |-> TRUE,
                   stmt |-> ParseUpdate(BuildUpdateQuery(sqlCall.transaction_id,
                                sqlCall.feedback_label, sqlCall.explanation))]
    /\ UNCHANGED sqlCall

----------------------------------------------------------------------------
(* Specifications                                                          *)

\* Spec follows the page of one browser through every step it can take; the
\* other session never opens the page there.  SpecConc has both sessions
\* submit feedback at the same time.
Pages == {1}

Init == MainInit /\ SqlIdle /\ FilterIdle /\ NormIdle

Next ==
    /\ \E sid \in Pages :
          \/ Open(sid)
          \/ SwitchTable(sid)
          \/ Upload(sid)
          \/ RemoveUpload(sid)
          \/ Click(sid)
          \/ SubmitFeedback(sid)
          \/ StoreApply(sid)
    /\ UNCHANGED <<sqlVars, filterVars, normVars>>

Spec == Init /\ [][Next]_vars

SqlNext == UpdateFeedbackInBigquery /\ UNCHANGED <<mainVars, filterVars, normVars>>

InitSql == MainInit /\ SqlInit /\ FilterIdle /\ NormIdle

SpecSql == InitSql /\ [][SqlNext]_vars

\* the frame of a session that has opened the page on table option o
FrameOf(o) ==
    [source |-> TableName(o), rows |-> NormalizeRows(QueryTable(InitStore, TableName(o)))]

\* that session after a click on the button of row idx
SelectedSession(o, idx) ==
    LET rows == FrameOf(o).rows
    IN [started |-> TRUE, table_option |-> o, uploaded |-> FALSE,
        df |-> [source |-> TableName(o), rows |-> rows],
        current_table |-> TableName(o), selected_property |-> <<idx>>,
        current_tab |-> "Detailed View",
        clicked |-> [source |-> TableName(o), tid |-> rows[idx + 1].transaction_id]]

SelectedSessions ==
    UNION {{SelectedSession(o, idx) : idx \in Clickable(FrameOf(o))} : o \in TableOptions}

\* SpecConc: every session has the detail view of some record open
ConcInit ==
    /\ store = InitStore
    /\ cache = [t \in Tables |-> [hit |-> TRUE, rows |-> QueryTable(InitStore, t)]]
    /\ sess \in [Sessions -> SelectedSessions]
    /\ inflight = [sid \in Sessions |-> NoRequest]
    /\ lastAct = NoAct
    /\ lastLanded = NoLanding
    /\ nWrites = 0

ConcNext ==
    /\ \E sid \in Sessions :
          \/ SubmitFeedback(sid)
          \/ StoreApply(sid)
    /\ UNCHANGED <<sqlVars, filterVars, normVars>>

InitConc == ConcInit /\ SqlIdle /\ FilterIdle /\ NormIdle

SpecConc == InitConc /\ [][ConcNext]_vars

FilterNext ==
    /\ \/ \E r \in RowPool : FilterLoadRow(r)
       \/ FilterRun
    /\ UNCHANGED <<mainVars, sqlVars, normVars>>

SpecFilter == Init /\ [][FilterNext]_vars

NormNext ==
    /\ \/ \E r \in RawPool : NormAddRow(r)
       \/ NormUpload
       \/ NormRerun
    /\ UNCHANGED <<mainVars, sqlVars, filterVars>>

SpecNorm == Init /\ [][NormNext]_vars

----------------------------------------------------------------------------
(* Properties                                                              *)

PositionOf(rows, tid) == {i \in 1..Len(rows) : rows[i].transaction_id = tid}

\* C1: when a feedback submission for a record of the selected dataset
\* completes without error, the store's record with that transaction_id has
\* is_newsworthy = (judgment is positive) and feedback = the explanation.
C1_FeedbackStored ==
    (lastAct.kind = "landed" /\ lastLanded.ok) =>
        LET c == lastLanded.call
            rows == store[lastLanded.dataset]
        IN /\ PositionOf(rows, c.transaction_id) # {}
           /\ \A i \in PositionOf(rows, c.transaction_id) :
                 /\ rows[i].is_newsworthy = (c.feedback_label = "Newsworthy")
                 /\ rows[i].feedback = c.explanation

\* C2: for every transaction_id and explanation the statement issued is one
\* well-formed update whose predicate selects exactly the given
\* transaction_id and whose feedback value is exactly the explanation.
C2_UpdateWellFormed ==
    sqlStmt.sent =>
        /\ sqlStmt.stmt.ok
        /\ sqlStmt.stmt.target = sqlCall.transaction_id
        /\ sqlStmt.stmt.feedback = sqlCall.explanation
        /\ sqlStmt.stmt.is_newsworthy = (sqlCall.feedback_label = "Newsworthy")

StatementOf(c) ==
    ParseUpdate(BuildUpdateQuery(c.transaction_id, c.feedback_label, c.explanation))

StoreIds ==
    UNION {{InitStore[t][i].transaction_id : i \in 1..Len(InitStore[t])} : t \in Tables}

\* explanations with and without the characters the statement treats specially
Texts == Explanations \cup {<<"a", "a">>, <<BSLASH, BSLASH>>, <<BSLASH, QUOTE>>}

\* C3: for every (transaction_id, judgment, explanation) and every store
\* state, the update applied twice in succession leaves the store as the
\* update applied once does: the feedback is overwritten, never appended.
C3_Idempotent ==
    \A tid \in StoreIds \cup {<<"a">>}, label \in FeedbackLabels, explanation \in Texts :
        LET stmt == StatementOf([transaction_id |-> tid, feedback_label |-> label,
                                 explanation |-> explanation])
        IN ApplyUpdate(ApplyUpdate(store, stmt), stmt) = ApplyUpdate(store, stmt)

\* a call landed right after the same call had landed, on a row that holds text
C3_Witness ==
    /\ lastAct.kind = "landed"
    /\ lastLanded.repeat
    /\ \E i \in 1..Len(store.newsworthy) :
          /\ store.newsworthy[i].transaction_id = lastLanded.call.transaction_id
          /\ store.newsworthy[i].feedback # <<>>

C8_ReloadIsSnapshot ==
    lastAct.kind = "reload" =>
        sess[lastAct.sid].df.rows
            = NormalizeRows(QueryTable(store, sess[lastAct.sid].current_table))

\* the record the detail view resolves, lines 298-299
ResolvedRecord(s) ==
    LET row == s.df.rows[s.selected_property[1] + 1]
    IN [source |-> s.df.source,
        tid |-> IF s.df.source = "upload" THEN row.transaction_id.v ELSE row.transaction_id]

\* C10: whenever selected_property is not None it is a row position of the
\* current collection and the record resolved from it is the record whose
\* select button was clicked last.
C10_SelectionValid ==
    \A sid \in Sessions :
        (sess[sid].started /\ sess[sid].selected_property # <<>>) =>
            /\ sess[sid].selected_property[1] < Len(sess[sid].df.rows)
            /\ ResolvedRecord(sess[sid]) = sess[sid].clicked

\* the criteria as the contract states them
Satisfies(df, row, w) ==
    /\ w.district_filter = {} \/ row.property_district \in w.district_filter
    /\ w.type_filter = {} \/ row.property_building_type_category \in w.type_filter
    /\ \/ w.date_filter = {}
       \/ row.created_date \in {d \in Unique(df, "created_date") : DateStr(d) \in w.date_filter}
    /\ row.transaction_sum # NaN
    /\ w.price_range[1] * Scale <= row.transaction_sum
    /\ row.transaction_sum <= w.price_range[2] * Scale

Kept(out) == {out[j] : j \in 1..Len(out)}

\* C5: the filter returns exactly the records that satisfy all four
\* predicates (an empty selection set is no constraint, both bounds are
\* inclusive), in their original relative order.
C5_FilterExact ==
    fout.done =>
        /\ \A i \in 1..Len(fdf) : (i - 1) \in Kept(fout.idx) <=> Satisfies(fdf, fdf[i], fcrit)
        /\ \A j, k \in 1..Len(fout.idx) : j < k => fout.idx[j] < fout.idx[k]

\* a filter with a district chosen that drops a record and keeps two, one of
\* them with its sum on the upper bound
C5_Witness ==
    /\ fout.done
    /\ fcrit.district_filter # {}
    /\ Len(fout.idx) = 2
    /\ Len(fdf) = 3
    /\ \E j \in 1..Len(fout.idx) :
          fdf[fout.idx[j] + 1].transaction_sum = fcrit.price_range[2] * Scale

\* C6: a record with a null transaction_sum is excluded for a range narrower
\* than the full range and included when the range is the full range (the
\* slider's default) and the membership sets do not exclude it.
C6_NullSumByRange ==
    fout.done =>
        \A i \in 1..Len(fdf) :
            fdf[i].transaction_sum = NaN =>
                IF fcrit.price_range = DefaultRange(fdf)
                THEN (/\ fcrit.district_filter = {} \/ fdf[i].property_district \in fcrit.district_filter
                      /\ fcrit.type_filter = {}
                            \/ fdf[i].property_building_type_category \in fcrit.type_filter
                      /\ fcrit.date_filter = {}
                            \/ DateStr(fdf[i].created_date) \in fcrit.date_filter)
                     => (i - 1) \in Kept(fout.idx)
                ELSE (i - 1) \notin Kept(fout.idx)

\* the mapping of row i of the file, when its text is a mapping literal
MappingParses(i) ==
    ~LiteralEvalRaises(rawRows[i].c0) /\ LiteralEval(rawRows[i].c0).isDict

\* C4: a parse failure of one row's mapping affects no other row: a row
\* whose mapping parses has its canonical fields extracted by key (null for
\* an absent key); only the failing row's canonical fields are null, and its
\* description and alert are kept.  (has_celebrity is the subject of C9.)
C4_ParseFailureIsolated ==
    (normDf.done /\ \A k \in 1..Len(rawRows) : rawRows[k].c0.kind \in {"dict", "call"}) =>
        \A i \in 1..Len(rawRows) :
            /\ \A f \in ExtractedFields \ {"has_celebrity"} :
                  IF MappingParses(i)
                  THEN /\ f \in normDf.df.cols
                       /\ normDf.df.rows[i][f] = DictGet(LiteralEval(rawRows[i].c0), f)
                  ELSE f \in normDf.df.cols => normDf.df.rows[i][f] = PyNone
            /\ normDf.df.rows[i].description = StripCell(rawRows[i].c1)
            /\ normDf.df.rows[i].newsworthy_alert = StripCell(rawRows[i].c2)

\* C9: has_celebrity "0" and numeric zero become "No", every other value is
\* passed through, and a later run leaves the normalized collection as it is.
C9_CelebrityNormalized ==
    (normDf.done /\ "has_celebrity" \in normDf.df.cols) =>
        \A i \in 1..Len(rawRows) :
            LET stored == DictGet(LiteralEval(rawRows[i].c0), "has_celebrity")
            IN normDf.df.rows[i].has_celebrity =
                  IF stored \in {PyStr(<<"0">>), PyInt(<<"0">>)}
                  THEN PyStr(<<"N", "o">>)
                  ELSE stored

====
